---------------------------- MODULE Spec2Model ----------------------------
(***************************************************************************)
(* Model of the BBRv2 congestion controller of quinn-proto                 *)
(* (src/quinn-proto/src/congestion/bbrv2/mod.rs).                          *)
(*                                                                         *)
(* The controller is the record held by the variable bbr; every method of  *)
(* BbrV2 is an operator from the record (and the call's arguments) to the  *)
(* record after the call.  Byte counts are natural numbers (all values of  *)
(* the model stay far below 2^64), Instants and Durations are counted in   *)
(* milliseconds, an Option is the empty set (None) or a singleton (Some).  *)
(* A gain (f32) is its exact value times 2^23.                             *)
(*                                                                         *)
(* Fields that the code writes but never reads (sent_bytes, lost_bytes,    *)
(* last_ack_time, bw_hi, bw_lo, ecn_alpha) are not part of the record.     *)
(***************************************************************************)
EXTENDS Integers, FiniteSets, Sequences, TLC

\* ------------------------------------------------------------------------
\* Bounds of the model
\* ------------------------------------------------------------------------
MaxMtu == 2             \* the MTU is 10, 20, ... 10 * MaxMtu
MaxConfigWindow == 60   \* the initial window of the non-default Config
MaxAckBytes == 2        \* an acknowledgement carries 0 or MaxAckBytes bytes
MaxDelivered == 2       \* cap of delivered_bytes
MaxPn == 1              \* packet numbers are 0..MaxPn
MaxRound == 1           \* cap of round_count
MaxCycle == 1           \* cap of cycle_count
MaxTick == 1            \* Instants: k * 200 ms, k in 0..MaxTick, and
MaxEpoch == 1           \*   e * 10.2 s, e in 1..MaxEpoch
MaxLost == 20           \* the small loss of a congestion event
MaxStep == 2            \* Instants 200 ms + k * 1 ms, k in 1..MaxStep
MaxLate == 1            \* Instants 10.2 s + k * 200 ms, k in 0..MaxLate

\* ------------------------------------------------------------------------
\* Constants of the program
\* ------------------------------------------------------------------------
K_HIGH_GAIN == 24201134                 \* 2.885f32 = 12100567 / 2^22
K_INV_HIGH_GAIN == 2907663              \* 1.0f32 / 2.885f32, rounded to f32
K_DERIVED_HIGH_CWNDGAIN == 16777216     \* 2.0
K_UNIT_GAIN == 8388608                  \* 1.0
K_PACING_GAIN == <<10485760, 6291456, 8388608, 8388608,
                   8388608, 8388608, 8388608, 8388608>>
K_MAX_INITIAL_CONGESTION_WINDOW == 200
BASE_DATAGRAM_SIZE == 1200
MIN_RTT_INIT == 1                       \* Duration::from_millis(1)
PROBE_RTT_INTERVAL == 10000             \* Duration::from_secs(10)
PROBE_RTT_DURATION == 200               \* Duration::from_millis(200)
MIN_PACING_PACKETS == 100               \* current_mtu * 100
U64_MAX == 2147483647                   \* stands for u64::MAX

Max(a, b) == IF a >= b THEN a ELSE b
Min(a, b) == IF a <= b THEN a ELSE b

None == {}
Some(x) == {x}

\* (x as f64 * g as f64) as u64, g a gain scaled by 2^23; the product is
\* exact in f64 for the values of the model, the cast truncates.
MulGain(x, g) == ((x * (g \div 4096)) + ((x * (g % 4096)) \div 4096)) \div 2048

\* Duration::as_micros of a Duration counted in milliseconds
as_micros(d) == d * 1000

\* Instant::duration_since / saturating_duration_since (saturate at zero)
duration_since(now, earlier) == IF now >= earlier THEN now - earlier ELSE 0

\* ------------------------------------------------------------------------
\* Input sets
\* ------------------------------------------------------------------------
Mtus == {10 * k : k \in 1..MaxMtu}
NearInstants == {k * PROBE_RTT_DURATION : k \in 0..MaxTick}
Instants == NearInstants
            \cup {e * (PROBE_RTT_INTERVAL + PROBE_RTT_DURATION) : e \in 1..MaxEpoch}
\* the Instants of a run that follows one gain cycle and one stay in ProbeRtt:
\* steps of min_rtt after 200 ms, and 200 ms steps after 10.2 s
StepInstants == {PROBE_RTT_DURATION + k * MIN_RTT_INIT : k \in 1..MaxStep}
LateInstants == {(PROBE_RTT_INTERVAL + PROBE_RTT_DURATION) + k * PROBE_RTT_DURATION
                    : k \in 0..MaxLate}
ProbeInstants == NearInstants \cup StepInstants \cup LateInstants
BwValues == {0, 2000}
RttValues == {200}
WideRttValues == {0} \cup RttValues
AckByteValues == {0, MaxAckBytes}
InFlightValues == {0, 2, 1000}
LargestAcked == {None, Some(MaxPn)}
LostValues == {0, MaxLost, 1000000}
PacketNumbers == 0..MaxPn
Modes == {"Startup", "Drain", "ProbeBw", "ProbeRtt"}

\* ------------------------------------------------------------------------
\* BbrV2Config
\* ------------------------------------------------------------------------
BbrV2Config_default ==
    [initial_window |-> K_MAX_INITIAL_CONGESTION_WINDOW * BASE_DATAGRAM_SIZE]

BbrV2Config_initial_window(config, value) ==
    [config EXCEPT !.initial_window = value]

SmallConfig == BbrV2Config_initial_window(BbrV2Config_default, MaxConfigWindow)

Configs == {BbrV2Config_default, SmallConfig}

\* ------------------------------------------------------------------------
\* BandwidthEstimation (bw_estimation.rs): the estimate and the bytes
\* acknowledged in the current window
\* ------------------------------------------------------------------------
BandwidthEstimation_default == [estimate |-> 0, acked_this_window |-> 0]

BandwidthEstimation_on_sent(e, now, bytes) == e

BandwidthEstimation_on_ack(e, bytes, sample) ==
    [estimate |-> sample, acked_this_window |-> e.acked_this_window + bytes]

BandwidthEstimation_end_acks(e) == [e EXCEPT !.acked_this_window = 0]

get_estimate(e) == e.estimate

bytes_acked_this_window(e) == e.acked_this_window

\* ------------------------------------------------------------------------
\* BbrV2
\* ------------------------------------------------------------------------
calculate_min_window(current_mtu) == 4 * current_mtu

new(config, current_mtu) ==
    [ config |-> config,
      current_mtu |-> current_mtu,
      max_bandwidth |-> BandwidthEstimation_default,
      min_rtt |-> MIN_RTT_INIT,
      bdp |-> 0,
      inflight_hi |-> U64_MAX,
      inflight_lo |-> 0,
      mode |-> "Startup",
      cycle_count |-> 0,
      last_cycle_start |-> None,
      current_cycle_offset |-> 0,
      pacing_gain |-> K_HIGH_GAIN,
      cwnd_gain |-> K_HIGH_GAIN,
      acked_bytes |-> 0,
      delivered_bytes |-> 0,
      max_acked_packet_number |-> 0,
      max_sent_packet_number |-> 0,
      current_round_trip_end_packet_number |-> 0,
      round_count |-> 0,
      last_probe_rtt |-> None,
      exit_probe_rtt_at |-> None,
      cwnd |-> config.initial_window,
      pacing_rate |-> 0,
      recovery_window |-> 0,
      full_pipe |-> FALSE,
      round_start |-> FALSE ]

enter_startup_mode(s) ==
    [s EXCEPT !.mode = "Startup",
              !.pacing_gain = K_HIGH_GAIN,
              !.cwnd_gain = K_HIGH_GAIN]

enter_drain_mode(s) ==
    [s EXCEPT !.mode = "Drain",
              !.pacing_gain = K_INV_HIGH_GAIN,
              !.cwnd_gain = K_HIGH_GAIN]

enter_probe_bw_mode_no_skip(s, now, draw) ==
    [s EXCEPT !.mode = "ProbeBw",
              !.cwnd_gain = K_DERIVED_HIGH_CWNDGAIN,
              !.last_cycle_start = Some(now),
              !.current_cycle_offset = draw,
              !.pacing_gain = K_PACING_GAIN[draw + 1]]

\* draw is the value of random_range(0..K_PACING_GAIN.len() - 1)
enter_probe_bw_mode(s, now, draw) ==
    LET rand_index == IF draw >= 1 THEN draw + 1 ELSE draw
    IN [s EXCEPT !.mode = "ProbeBw",
                 !.cwnd_gain = K_DERIVED_HIGH_CWNDGAIN,
                 !.last_cycle_start = Some(now),
                 !.current_cycle_offset = rand_index,
                 !.pacing_gain = K_PACING_GAIN[rand_index + 1]]

enter_probe_rtt_mode(s, now) ==
    [s EXCEPT !.mode = "ProbeRtt",
              !.pacing_gain = K_UNIT_GAIN,
              !.exit_probe_rtt_at = None,
              !.last_probe_rtt = Some(now)]

update_bdp_zeroing(s) ==
    LET bw == get_estimate(s.max_bandwidth)
    IN IF bw > 0 /\ s.min_rtt # 0
       THEN [s EXCEPT !.bdp = (bw * as_micros(s.min_rtt)) \div 1000000]
       ELSE [s EXCEPT !.bdp = 0]

update_bdp(s) ==
    LET bw == get_estimate(s.max_bandwidth)
    IN IF bw > 0 /\ s.min_rtt # 0
       THEN [s EXCEPT !.bdp = (bw * as_micros(s.min_rtt)) \div 1000000]
       ELSE s

update_pacing_rate(s) ==
    LET bw == get_estimate(s.max_bandwidth)
    IN IF bw = 0
       THEN s
       ELSE [s EXCEPT !.pacing_rate =
                Max(MulGain(bw, s.pacing_gain), s.current_mtu * MIN_PACING_PACKETS)]

update_congestion_window_capped(s0, bytes_acked) ==
    LET s == update_bdp(s0)
        target_cwnd ==
            IF s.bdp > 0
            THEN Max(Max(MulGain(s.bdp, s.cwnd_gain), s.config.initial_window),
                     calculate_min_window(s.current_mtu))
            ELSE s.config.initial_window
        bounded_cwnd == Max(Min(target_cwnd, s.inflight_hi), s.inflight_lo)
        cwnd1 ==
            CASE s.mode = "Drain" -> bounded_cwnd
              [] OTHER -> Min(bounded_cwnd, s.cwnd + bytes_acked)
    IN [s EXCEPT !.cwnd = Max(cwnd1, calculate_min_window(s.current_mtu))]

update_congestion_window(s0, bytes_acked) ==
    LET s == update_bdp(s0)
        target_cwnd ==
            IF s.bdp > 0
            THEN Max(Max(MulGain(s.bdp, s.cwnd_gain), s.config.initial_window),
                     calculate_min_window(s.current_mtu))
            ELSE s.config.initial_window
        bounded_cwnd == Max(Min(target_cwnd, s.inflight_hi), s.inflight_lo)
        cwnd1 ==
            CASE s.mode = "Startup" ->
                    IF ~s.full_pipe
                    THEN s.cwnd + bytes_acked
                    ELSE Min(bounded_cwnd, s.cwnd + bytes_acked)
              [] s.mode = "Drain" -> bounded_cwnd
              [] OTHER -> Min(bounded_cwnd, s.cwnd + bytes_acked)
    IN [s EXCEPT !.cwnd = Max(cwnd1, calculate_min_window(s.current_mtu))]

\* (bdp as f64 * 0.8) as u64 = floor(4 * bdp / 5) for the values of the model
check_full_pipe(s) ==
    IF s.full_pipe
    THEN s
    ELSE IF s.bdp > 0 /\ s.delivered_bytes > (s.bdp * 4) \div 5
         THEN [s EXCEPT !.full_pipe = TRUE]
         ELSE s

update_cycle_phase_inclusive(s, now, in_flight) ==
    IF s.mode # "ProbeBw"
    THEN s
    ELSE LET should_advance ==
                 \E last \in s.last_cycle_start :
                     duration_since(now, last) >= s.min_rtt
             offset == (s.current_cycle_offset + 1) % Len(K_PACING_GAIN)
         IN IF should_advance
            THEN [s EXCEPT !.current_cycle_offset = offset,
                           !.last_cycle_start = Some(now),
                           !.pacing_gain = K_PACING_GAIN[offset + 1],
                           !.cycle_count = @ + 1]
            ELSE s

update_cycle_phase(s, now, in_flight) ==
    IF s.mode # "ProbeBw"
    THEN s
    ELSE LET should_advance ==
                 \E last \in s.last_cycle_start :
                     duration_since(now, last) > s.min_rtt
             offset == (s.current_cycle_offset + 1) % Len(K_PACING_GAIN)
         IN IF should_advance
            THEN [s EXCEPT !.current_cycle_offset = offset,
                           !.last_cycle_start = Some(now),
                           !.pacing_gain = K_PACING_GAIN[offset + 1],
                           !.cycle_count = @ + 1]
            ELSE s

maybe_probe_rtt_inclusive(s, now) ==
    LET should_probe ==
            IF s.last_probe_rtt = None
            THEN TRUE
            ELSE \E last \in s.last_probe_rtt :
                     duration_since(now, last) >= PROBE_RTT_INTERVAL
    IN IF should_probe /\ s.mode # "ProbeRtt"
       THEN enter_probe_rtt_mode(s, now)
       ELSE s

maybe_probe_rtt(s, now) ==
    LET should_probe ==
            IF s.last_probe_rtt = None
            THEN TRUE
            ELSE \E last \in s.last_probe_rtt :
                     duration_since(now, last) > PROBE_RTT_INTERVAL
    IN IF should_probe /\ s.mode # "ProbeRtt"
       THEN enter_probe_rtt_mode(s, now)
       ELSE s

saturating_sub(a, b) == IF a >= b THEN a - b ELSE 0

update_recovery_window_no_floor(s, bytes_acked, bytes_lost) ==
    LET w0 == IF s.recovery_window = 0
              THEN Max(s.cwnd, calculate_min_window(s.current_mtu))
              ELSE s.recovery_window
    IN [s EXCEPT !.recovery_window =
            IF bytes_lost > 0 THEN saturating_sub(w0, bytes_lost) ELSE w0]

update_recovery_window(s, bytes_acked, bytes_lost) ==
    LET w0 == IF s.recovery_window = 0
              THEN Max(s.cwnd, calculate_min_window(s.current_mtu))
              ELSE s.recovery_window
        w1 == IF bytes_lost > 0 THEN saturating_sub(w0, bytes_lost) ELSE w0
    IN [s EXCEPT !.recovery_window =
            Max(Max(w1, s.cwnd), calculate_min_window(s.current_mtu))]

on_sent(s, now, bytes, last_packet_number) ==
    [s EXCEPT !.max_sent_packet_number = last_packet_number,
              !.max_bandwidth = BandwidthEstimation_on_sent(@, now, bytes)]

\* rtt_min is rtt.min(); sample is the estimate the bandwidth estimator
\* holds after the acknowledgement
on_ack(s, now, bytes, rtt_min, sample) ==
    [s EXCEPT !.acked_bytes = @ + bytes,
              !.delivered_bytes = @ + bytes,
              !.max_bandwidth = BandwidthEstimation_on_ack(@, bytes, sample),
              !.min_rtt = IF s.min_rtt > rtt_min \/ s.min_rtt = 0
                          THEN rtt_min ELSE @]

\* The arms of the match on self.mode in on_end_acks
startup_arm_on_round_start(s) ==
    LET s1 == check_full_pipe(s)
    IN IF s1.round_start
       THEN enter_drain_mode(s1)
       ELSE s1

startup_arm(s) ==
    LET s1 == check_full_pipe(s)
    IN IF s1.full_pipe /\ s1.round_start
       THEN enter_drain_mode(s1)
       ELSE s1

drain_arm_strict(s, now, in_flight, draw) ==
    IF in_flight < s.bdp
    THEN enter_probe_bw_mode(s, now, draw)
    ELSE s

drain_arm(s, now, in_flight, draw) ==
    IF in_flight <= s.bdp
    THEN enter_probe_bw_mode(s, now, draw)
    ELSE s

probe_rtt_arm_to_startup(s, now, in_flight, draw) ==
    IF s.exit_probe_rtt_at = None
    THEN IF in_flight < calculate_min_window(s.current_mtu) + s.current_mtu
         THEN [s EXCEPT !.exit_probe_rtt_at = Some(now + PROBE_RTT_DURATION)]
         ELSE s
    ELSE IF \E at \in s.exit_probe_rtt_at : now >= at
         THEN enter_startup_mode(s)
         ELSE s

probe_rtt_arm_rearming(s, now, in_flight, draw) ==
    IF in_flight < calculate_min_window(s.current_mtu) + s.current_mtu
    THEN [s EXCEPT !.exit_probe_rtt_at = Some(now + PROBE_RTT_DURATION)]
    ELSE IF \E at \in s.exit_probe_rtt_at : now >= at
         THEN IF s.full_pipe
              THEN enter_probe_bw_mode(s, now, draw)
              ELSE enter_startup_mode(s)
         ELSE s

probe_rtt_arm(s, now, in_flight, draw) ==
    IF s.exit_probe_rtt_at = None
    THEN IF in_flight < calculate_min_window(s.current_mtu) + s.current_mtu
         THEN [s EXCEPT !.exit_probe_rtt_at = Some(now + PROBE_RTT_DURATION)]
         ELSE s
    ELSE IF \E at \in s.exit_probe_rtt_at : now >= at
         THEN IF s.full_pipe
              THEN enter_probe_bw_mode(s, now, draw)
              ELSE enter_startup_mode(s)
         ELSE s

\* "State machine transitions" of on_end_acks
state_machine(s, now, in_flight, draw) ==
    CASE s.mode = "Startup" -> startup_arm(s)
      [] s.mode = "Drain" -> drain_arm(s, now, in_flight, draw)
      [] s.mode = "ProbeBw" -> update_cycle_phase(s, now, in_flight)
      [] s.mode = "ProbeRtt" -> probe_rtt_arm(s, now, in_flight, draw)

detect_round_start_inclusive(s) ==
    IF s.max_acked_packet_number >= s.current_round_trip_end_packet_number
    THEN [s EXCEPT !.round_start = TRUE,
                   !.current_round_trip_end_packet_number =
                        s.max_sent_packet_number,
                   !.round_count = @ + 1]
    ELSE [s EXCEPT !.round_start = FALSE]

\* "Detect round start" of on_end_acks
detect_round_start(s) ==
    IF s.max_acked_packet_number > s.current_round_trip_end_packet_number
    THEN [s EXCEPT !.round_start = TRUE,
                   !.current_round_trip_end_packet_number =
                        s.max_sent_packet_number,
                   !.round_count = @ + 1]
    ELSE [s EXCEPT !.round_start = FALSE]

on_end_acks(s0, now, in_flight, largest_packet_num_acked, draw) ==
    LET s1 == IF largest_packet_num_acked # None
              THEN [s0 EXCEPT !.max_acked_packet_number =
                        CHOOSE p \in largest_packet_num_acked : TRUE]
              ELSE s0
        bytes_acked == bytes_acked_this_window(s1.max_bandwidth)
        s2 == [s1 EXCEPT !.max_bandwidth = BandwidthEstimation_end_acks(@)]
        s3 == detect_round_start(s2)
        s4 == state_machine(s3, now, in_flight, draw)
        s5 == maybe_probe_rtt(s4, now)
        s6 == update_pacing_rate(s5)
        s7 == update_congestion_window(s6, bytes_acked)
    IN [s7 EXCEPT !.acked_bytes = 0]

on_congestion_event_unfloored(s, lost_bytes) ==
    update_recovery_window_no_floor(s, s.acked_bytes, lost_bytes)

on_congestion_event(s, lost_bytes) ==
    update_recovery_window(s, s.acked_bytes, lost_bytes)

on_mtu_update_no_floor(s, new_mtu) ==
    [s EXCEPT !.current_mtu = new_mtu]

on_mtu_update(s, new_mtu) ==
    [s EXCEPT !.current_mtu = new_mtu,
              !.cwnd = Max(s.cwnd, calculate_min_window(new_mtu))]

window_ignoring_probe_rtt(s) ==
    IF s.recovery_window > 0
    THEN Min(s.cwnd, s.recovery_window)
    ELSE s.cwnd

window(s) ==
    IF s.mode = "ProbeRtt"
    THEN calculate_min_window(s.current_mtu)
    ELSE IF s.recovery_window > 0
         THEN Min(s.cwnd, s.recovery_window)
         ELSE s.cwnd

metrics(s) ==
    [congestion_window |-> window(s),
     ssthresh |-> None,
     pacing_rate |-> Some(s.pacing_rate * 8)]

clone_box_rebuilt(s) == new(s.config, s.current_mtu)

clone_box(s) == s

initial_window_from_cwnd(s) == s.cwnd

initial_window(s) == s.config.initial_window

\* ControllerFactory::build
build(config, now, current_mtu) == new(config, current_mtu)

\* ------------------------------------------------------------------------
\* The state machine
\*
\* bbr     the controller
\* now     the latest Instant handed to the controller
\* cloned  the copy made by clone_box, while the call that made it is the
\*         last call (None otherwise)
\* call    the last call made: its name, the mode it found, and its
\*         in_flight, lost_bytes and rtt.min() argument (0 when it has none)
\* ------------------------------------------------------------------------
VARIABLES bbr, now, cloned, call

vars == <<bbr, now, cloned, call>>

Call(op, in_flight, lost_bytes, rtt_min) ==
    [op |-> op, pre_mode |-> bbr.mode, in_flight |-> in_flight,
     lost_bytes |-> lost_bytes, rtt_min |-> rtt_min]

InitIn(configs, mtus) ==
    /\ now = 0
    /\ \E config \in configs, mtu \in mtus : bbr = build(config, now, mtu)
    /\ cloned = None
    /\ call = [op |-> "build", pre_mode |-> "Startup", in_flight |-> 0,
               lost_bytes |-> 0, rtt_min |-> 0]

\* The generator is consulted by enter_probe_bw_mode alone, which is called
\* from Drain and from ProbeRtt with a full pipe and an armed exit deadline:
\* elsewhere no draw is made.
Draws(s) == IF \/ s.mode = "Drain"
               \/ s.mode = "ProbeRtt" /\ s.full_pipe /\ s.exit_probe_rtt_at # None
            THEN 0..(Len(K_PACING_GAIN) - 2)
            ELSE {0}

\* on_sent and on_ack hand `now` to the bandwidth estimator only (and to the
\* unread last_ack_time); they are called at the current Instant.
OnSent ==
    \E bytes \in {MaxAckBytes}, pn \in PacketNumbers :
        /\ bbr' = on_sent(bbr, now, bytes, pn)
        /\ call' = Call("on_sent", 0, 0, 0)
        /\ cloned' = None
        /\ UNCHANGED now

OnAckOf(rtts) ==
    \E bytes \in AckByteValues, rtt_min \in rtts, sample \in BwValues :
        /\ bbr.delivered_bytes + bytes <= MaxDelivered
        /\ bbr' = on_ack(bbr, now, bytes, rtt_min, sample)
        /\ call' = Call("on_ack", 0, 0, rtt_min)
        /\ cloned' = None
        /\ UNCHANGED now

OnAck == OnAckOf(RttValues)

OnEndAcksAt(instants) ==
    \E t \in {i \in instants : i >= now}, in_flight \in InFlightValues,
       largest \in LargestAcked, draw \in Draws(bbr) :
        LET s == on_end_acks(bbr, t, in_flight, largest, draw)
        IN /\ s.round_count <= MaxRound
           /\ s.cycle_count <= MaxCycle
           /\ bbr' = s
           /\ call' = Call("on_end_acks", in_flight, 0, 0)
           /\ cloned' = None
           /\ now' = t

OnCongestionEvent ==
    \E lost_bytes \in LostValues :
        /\ bbr' = on_congestion_event(bbr, lost_bytes)
        /\ call' = Call("on_congestion_event", 0, lost_bytes, 0)
        /\ cloned' = None
        /\ UNCHANGED now

OnMtuUpdateTo(mtus) ==
    \E new_mtu \in mtus :
        /\ bbr' = on_mtu_update(bbr, new_mtu)
        /\ call' = Call("on_mtu_update", 0, 0, 0)
        /\ cloned' = None
        /\ UNCHANGED now

CloneBox ==
    /\ cloned' = Some(clone_box(bbr))
    /\ call' = Call("clone_box", 0, 0, 0)
    /\ UNCHANGED <<bbr, now>>

\* Every Config and MTU, MTU changes, congestion events and clones, with the
\* batches of acknowledgements at the Instants 0, 200 ms, ...
Init == InitIn(Configs, Mtus)

Next ==
    \/ OnSent
    \/ OnAck
    \/ OnEndAcksAt(NearInstants)
    \/ OnCongestionEvent
    \/ OnMtuUpdateTo(Mtus)
    \/ CloneBox

Spec == Init /\ [][Next]_vars

\* One Config and one MTU, with batches also more than 10 s after an RTT probe
InitTimed == InitIn({SmallConfig}, {10})

NextTimed ==
    \/ OnSent
    \/ OnAck
    \/ OnEndAcksAt(Instants)
    \/ OnCongestionEvent
    \/ OnMtuUpdateTo({bbr.current_mtu})

SpecTimed == InitTimed /\ [][NextTimed]_vars

\* One Config and one MTU, no congestion event: batches one min_rtt apart
\* after 200 ms and 200 ms apart after 10.2 s
NextProbe ==
    \/ OnSent
    \/ OnAck
    \/ OnEndAcksAt(ProbeInstants)

SpecProbe == InitTimed /\ [][NextProbe]_vars

\* One Config, every MTU, MTU changes, no congestion event, and an RTT
\* estimator whose minimum may be zero: min_rtt leaves its construction
\* value, and bdp * cwnd_gain rises above the initial window
InitWindow == InitIn({SmallConfig}, Mtus)

NextWindow ==
    \/ OnSent
    \/ OnAckOf(WideRttValues)
    \/ OnEndAcksAt(NearInstants)
    \/ OnMtuUpdateTo(Mtus)

SpecWindow == InitWindow /\ [][NextWindow]_vars

\* Batches that keep arriving, 200 ms or 10.2 s after the one before, for
\* ever.  An Instant is opaque: the controller reads only the differences
\* between the Instants it stores and the `now` of a call.  After each batch
\* the origin of time is moved to the batch's Instant (now stays 0, the
\* stored Instants are relative to it), and an Instant more than 10.2 s in
\* the past is kept as 10.2 s in the past: every comparison of the
\* controller has the same outcome.  No batch starts a round (nothing is
\* sent, largest_packet_num_acked is None).
Delays == {PROBE_RTT_DURATION, PROBE_RTT_INTERVAL + PROBE_RTT_DURATION}

Horizon == PROBE_RTT_INTERVAL + PROBE_RTT_DURATION

ShiftInstant(o, d) == {Max(i - d, 0 - Horizon) : i \in o}

Rebase(s, d) ==
    [s EXCEPT !.last_cycle_start = ShiftInstant(@, d),
              !.last_probe_rtt = ShiftInstant(@, d),
              !.exit_probe_rtt_at = ShiftInstant(@, d)]

OnEndAcksAfter(delays, in_flights) ==
    \E d \in delays, in_flight \in in_flights, draw \in Draws(bbr) :
        LET s == on_end_acks(bbr, now + d, in_flight, None, draw)
        IN /\ s.cycle_count <= MaxCycle
           /\ bbr' = Rebase(s, d)
           /\ call' = Call("on_end_acks", in_flight, 0, 0)
           /\ cloned' = None
           /\ UNCHANGED now

\* the values of in_flight below 4 * current_mtu + current_mtu, which the
\* transport reaches by respecting window() in ProbeRtt
LowInFlight ==
    {f \in InFlightValues :
        f < calculate_min_window(bbr.current_mtu) + bbr.current_mtu}

NextLive ==
    \/ OnAck
    \/ OnEndAcksAfter(Delays, LowInFlight)

\* the transport does not stop: it acknowledges packets and closes batches
SpecLive == InitTimed /\ [][NextLive]_vars /\ WF_vars(NextLive)

\* ------------------------------------------------------------------------
\* Properties
\* ------------------------------------------------------------------------
PacingGains == {K_PACING_GAIN[i] : i \in 1..Len(K_PACING_GAIN)}

\* C1: right after every on_end_acks and every on_mtu_update the congestion
\* window is at least 4 * current_mtu; on_mtu_update sets cwnd to
\* max(old cwnd, 4 * new_mtu); once the floor holds no operation breaks it.
C1_CwndFloor ==
    /\ [](call.op \in {"on_end_acks", "on_mtu_update"}
            => bbr.cwnd >= 4 * bbr.current_mtu)
    /\ [][call'.op = "on_mtu_update"
            => bbr'.cwnd = Max(bbr.cwnd, 4 * bbr'.current_mtu)]_vars
    /\ [][bbr.cwnd >= 4 * bbr.current_mtu
            => bbr'.cwnd >= 4 * bbr'.current_mtu]_vars

\* an MTU update has raised cwnd above the initial window to the new floor
C1_Witness ==
    /\ call.op = "on_mtu_update"
    /\ bbr.cwnd = 4 * bbr.current_mtu
    /\ bbr.cwnd > bbr.config.initial_window

\* C2: in ProbeRtt window() is exactly 4 * current_mtu whatever cwnd and
\* recovery_window are; in every other mode it is min(cwnd, recovery_window)
\* when recovery_window > 0 and cwnd otherwise.
C2_WindowByMode ==
    /\ bbr.mode = "ProbeRtt" => window(bbr) = 4 * bbr.current_mtu
    /\ bbr.mode # "ProbeRtt" =>
          window(bbr) = IF bbr.recovery_window > 0
                        THEN Min(bbr.cwnd, bbr.recovery_window)
                        ELSE bbr.cwnd

\* ProbeRtt right after an MTU update, with cwnd and an active recovery
\* window both different from the minimum window
C2_Witness ==
    /\ bbr.mode = "ProbeRtt"
    /\ call.op = "on_mtu_update"
    /\ bbr.cwnd # 4 * bbr.current_mtu
    /\ bbr.recovery_window > 0
    /\ bbr.recovery_window # 4 * bbr.current_mtu

\* C3: Drain is entered only from Startup, only by an on_end_acks batch that
\* started a round and with full_pipe true; full_pipe is latched only by a
\* batch in Startup whose delivered_bytes exceed 80% of a non-zero bdp and
\* never reverts; hence every state in Drain has full_pipe true.
C3_DrainOnlyWithFullPipe ==
    /\ [][(bbr'.mode = "Drain" /\ bbr.mode # "Drain")
            => /\ bbr.mode = "Startup"
               /\ call'.op = "on_end_acks"
               /\ bbr'.round_start
               /\ bbr'.full_pipe]_vars
    /\ [][(~bbr.full_pipe /\ bbr'.full_pipe)
            => /\ call'.op = "on_end_acks"
               /\ bbr.mode = "Startup"
               /\ bbr.bdp > 0
               /\ 5 * bbr.delivered_bytes > 4 * bbr.bdp]_vars
    /\ [][bbr.full_pipe => bbr'.full_pipe]_vars
    /\ [](bbr.mode = "Drain" => bbr.full_pipe)

\* a batch has just moved the controller from Startup to Drain
C3_Witness ==
    /\ bbr.mode = "Drain"
    /\ call.op = "on_end_acks"
    /\ call.pre_mode = "Startup"
    /\ bbr.round_start
    /\ bbr.full_pipe

\* C4: round_count never decreases and changes only in on_end_acks, by +1,
\* exactly in the batches whose updated max_acked_packet_number exceeds
\* current_round_trip_end_packet_number; the round end then becomes
\* max_sent_packet_number; round_start after the batch tells whether
\* round_count was incremented.
C4_RoundAccounting ==
    [][/\ bbr'.round_count >= bbr.round_count
       /\ bbr'.round_count # bbr.round_count
            => /\ call'.op = "on_end_acks"
               /\ bbr'.round_count = bbr.round_count + 1
       /\ call'.op = "on_end_acks"
            => LET started == bbr'.max_acked_packet_number
                                > bbr.current_round_trip_end_packet_number
               IN /\ (bbr'.round_count = bbr.round_count + 1) <=> started
                  /\ bbr'.round_start <=> started
                  /\ started => bbr'.current_round_trip_end_packet_number
                                    = bbr.max_sent_packet_number
                  /\ ~started => bbr'.current_round_trip_end_packet_number
                                    = bbr.current_round_trip_end_packet_number
      ]_vars

\* a batch has started a round and moved the round end to the last packet sent
C4_Witness ==
    /\ call.op = "on_end_acks"
    /\ bbr.round_start
    /\ bbr.round_count = 1
    /\ bbr.max_sent_packet_number = MaxPn
    /\ bbr.current_round_trip_end_packet_number = MaxPn

\* C5 as stated: an on_end_acks in Drain with in_flight <= bdp leaves the
\* controller in ProbeBw, with a pacing gain of the gain table and
\* cwnd_gain 2.0.
C5_DrainToProbeBw ==
    [][(call'.op = "on_end_acks" /\ bbr.mode = "Drain"
            /\ call'.in_flight <= bbr.bdp)
        => /\ bbr'.mode = "ProbeBw"
           /\ bbr'.pacing_gain \in PacingGains
           /\ bbr'.cwnd_gain = K_DERIVED_HIGH_CWNDGAIN]_vars

\* C5 amended: the batch leaves the controller in ProbeBw unless more than
\* 10 s have passed since the last RTT probe, and then in ProbeRtt; the
\* pacing gain is one of the gain table and cwnd_gain is 2.0 in both cases.
C5_DrainToProbeBwUnlessProbeRtt ==
    [][(call'.op = "on_end_acks" /\ bbr.mode = "Drain"
            /\ call'.in_flight <= bbr.bdp)
        => /\ bbr'.mode =
                IF \E last \in bbr.last_probe_rtt :
                        now' - last > PROBE_RTT_INTERVAL
                THEN "ProbeRtt" ELSE "ProbeBw"
           /\ bbr'.pacing_gain \in PacingGains
           /\ bbr'.cwnd_gain = K_DERIVED_HIGH_CWNDGAIN]_vars

\* a batch with in_flight equal to the bdp has moved Drain to ProbeBw
C5_Witness ==
    /\ call.op = "on_end_acks"
    /\ call.pre_mode = "Drain"
    /\ call.in_flight = bbr.bdp
    /\ call.in_flight > 0
    /\ bbr.mode = "ProbeBw"

\* C6: on_congestion_event sets recovery_window to
\* max(sat_sub(seed, lost_bytes), cwnd, 4 * current_mtu), seed the old
\* recovery_window if non-zero and max(cwnd, 4 * current_mtu) otherwise; the
\* result is never negative and at least max(cwnd, 4 * current_mtu).
C6_RecoveryWindowUpdate ==
    [][call'.op = "on_congestion_event"
        => LET floor == Max(bbr.cwnd, 4 * bbr.current_mtu)
               seed == IF bbr.recovery_window # 0
                       THEN bbr.recovery_window ELSE floor
               lost == call'.lost_bytes
               left == IF seed >= lost THEN seed - lost ELSE 0
           IN /\ bbr'.recovery_window = Max(left, floor)
              /\ bbr'.recovery_window >= Max(bbr'.cwnd, 4 * bbr'.current_mtu)
              /\ bbr'.recovery_window >= 0]_vars

\* a congestion event that lost more than the recovery window held
C6_Witness ==
    /\ call.op = "on_congestion_event"
    /\ call.lost_bytes > bbr.recovery_window
    /\ bbr.recovery_window = Max(bbr.cwnd, 4 * bbr.current_mtu)

\* C7 as stated: once an on_end_acks has seen a non-zero bandwidth estimate
\* (pacing_rate is non-zero from then on), pacing_rate >= 100 * current_mtu
\* in every state whose bandwidth estimate is non-zero.
C7_PacingRateFloor ==
    (get_estimate(bbr.max_bandwidth) # 0 /\ bbr.pacing_rate # 0)
        => bbr.pacing_rate >= 100 * bbr.current_mtu

\* C8: a controller just built is in Startup with window() = W, cwnd = W and
\* no recovery window, W the initial window of its Config (200 * base
\* datagram size > 0 for the default Config); no operation changes
\* initial_window().
C8_InitialWindow ==
    /\ [](call.op = "build"
            => /\ bbr.mode = "Startup"
               /\ bbr.cwnd = initial_window(bbr)
               /\ bbr.recovery_window = 0
               /\ window(bbr) = initial_window(bbr)
               /\ initial_window(bbr) \in
                    {K_MAX_INITIAL_CONGESTION_WINDOW * BASE_DATAGRAM_SIZE,
                     MaxConfigWindow})
    /\ K_MAX_INITIAL_CONGESTION_WINDOW * BASE_DATAGRAM_SIZE > 0
    /\ [][initial_window(bbr') = initial_window(bbr)]_vars

\* a controller of the default Config whose cwnd has left the initial window
C8_Witness ==
    /\ call.op = "on_end_acks"
    /\ bbr.cwnd # initial_window(bbr)
    /\ initial_window(bbr)
         = K_MAX_INITIAL_CONGESTION_WINDOW * BASE_DATAGRAM_SIZE

\* C9: the copy made by clone_box reports the same initial_window(),
\* window() and metrics() as the original, in every state of the original,
\* and cloning does not change the original.
C9_CloneFidelity ==
    /\ [](\A c \in cloned :
            /\ initial_window(c) = initial_window(bbr)
            /\ window(c) = window(bbr)
            /\ metrics(c) = metrics(bbr)
            /\ metrics(c).ssthresh = None
            /\ metrics(c).pacing_rate = Some(bbr.pacing_rate * 8))
    /\ [][call'.op = "clone_box" => (cloned' # None /\ bbr' = bbr)]_vars

\* a clone of a controller in ProbeRtt with a recovery window and a pacing rate
C9_Witness ==
    /\ cloned # None
    /\ bbr.mode = "ProbeRtt"
    /\ bbr.recovery_window > 0
    /\ bbr.pacing_rate > 0
    /\ bbr.cwnd # initial_window(bbr)

\* C10 as stated: whenever the recovery window is active,
\* recovery_window >= min(cwnd, 4 * current_mtu).
C10_RecoveryWindowFloor ==
    bbr.recovery_window # 0
        => bbr.recovery_window >= Min(bbr.cwnd, 4 * bbr.current_mtu)

\* enter_probe_rtt_mode has run in the step: it alone writes last_probe_rtt,
\* and always to a new value
EnteredProbeRtt == bbr'.last_probe_rtt # bbr.last_probe_rtt

\* C11 as stated: every transition into ProbeRtt happens at the end of an
\* on_end_acks call, and only when an RTT-probe time is recorded and more
\* than 10 s lie between it and the call's now.
C11_ProbeRttOnlyAfterInterval ==
    [][(EnteredProbeRtt \/ (bbr.mode # "ProbeRtt" /\ bbr'.mode = "ProbeRtt"))
        => /\ call'.op = "on_end_acks"
           /\ bbr'.mode = "ProbeRtt"
           /\ \E last \in bbr.last_probe_rtt :
                  now' - last > PROBE_RTT_INTERVAL]_vars

\* C11 amended: ProbeRtt is entered at the end of an on_end_acks call only,
\* from a mode other than ProbeRtt or from a ProbeRtt the same call has left
\* (deadline reached); either no RTT-probe time is recorded - the first
\* on_end_acks of a controller always enters ProbeRtt - or more than 10 s lie
\* between the recorded time and the call's now; never 10 s or less after
\* the last RTT probe.
C11_ProbeRttFirstBatchOrAfterInterval ==
    /\ [][(EnteredProbeRtt \/ (bbr.mode # "ProbeRtt" /\ bbr'.mode = "ProbeRtt"))
            => /\ call'.op = "on_end_acks"
               /\ EnteredProbeRtt
               /\ bbr'.mode = "ProbeRtt"
               /\ bbr'.last_probe_rtt = Some(now')
               /\ \/ bbr.mode # "ProbeRtt"
                  \/ \E at \in bbr.exit_probe_rtt_at : now' >= at
               /\ \/ bbr.last_probe_rtt = None
                  \/ \E last \in bbr.last_probe_rtt :
                         now' - last > PROBE_RTT_INTERVAL]_vars
    /\ [][(call'.op = "on_end_acks" /\ bbr.last_probe_rtt = None)
            => (EnteredProbeRtt /\ bbr'.mode = "ProbeRtt")]_vars
    /\ [][(call'.op = "on_end_acks"
             /\ \E last \in bbr.last_probe_rtt :
                    now' - last <= PROBE_RTT_INTERVAL)
            => ~EnteredProbeRtt]_vars

\* a batch more than 10 s after the last RTT probe has moved ProbeBw to
\* ProbeRtt
C11_Witness ==
    /\ call.op = "on_end_acks"
    /\ call.pre_mode = "ProbeBw"
    /\ bbr.mode = "ProbeRtt"
    /\ bbr.last_probe_rtt = Some(now)
    /\ now > PROBE_RTT_INTERVAL

SameStay ==
    /\ bbr.mode = "ProbeRtt"
    /\ bbr'.mode = "ProbeRtt"
    /\ ~EnteredProbeRtt

\* C13: the exit deadline is unset at entry into ProbeRtt; within the stay
\* it is set once, to now + 200 ms, by the first on_end_acks whose in_flight
\* is below 4 * current_mtu + current_mtu, and no later batch of the stay
\* changes it; the controller leaves ProbeRtt only in an on_end_acks that
\* found the deadline armed and has now >= the deadline (so never in the
\* arming batch, never before the deadline, never comparing an unset
\* deadline).
C13_ExitDeadlineArmedOnce ==
    [][/\ EnteredProbeRtt
            => (bbr'.mode = "ProbeRtt" /\ bbr'.exit_probe_rtt_at = None)
       /\ (SameStay /\ bbr.exit_probe_rtt_at = None)
            => bbr'.exit_probe_rtt_at =
                 IF /\ call'.op = "on_end_acks"
                    /\ call'.in_flight < 4 * bbr.current_mtu + bbr.current_mtu
                 THEN Some(now' + PROBE_RTT_DURATION)
                 ELSE None
       /\ (SameStay /\ bbr.exit_probe_rtt_at # None)
            => bbr'.exit_probe_rtt_at = bbr.exit_probe_rtt_at
       /\ (bbr.mode = "ProbeRtt" /\ ~SameStay)
            => /\ call'.op = "on_end_acks"
               /\ \E at \in bbr.exit_probe_rtt_at : now' >= at
      ]_vars

\* a later batch of the stay, before the deadline and with in_flight below
\* the arming threshold, has left the armed deadline alone
C13_Witness ==
    /\ call.op = "on_end_acks"
    /\ call.pre_mode = "ProbeRtt"
    /\ bbr.mode = "ProbeRtt"
    /\ call.in_flight < 4 * bbr.current_mtu + bbr.current_mtu
    /\ \E at \in bbr.exit_probe_rtt_at : now < at /\ at < now + PROBE_RTT_DURATION

\* C14 as stated: in ProbeBw an on_end_acks advances the gain cycle iff the
\* time since the last advance (or since ProbeBw entry) is >= min_rtt: then
\* the offset becomes (offset + 1) mod 8, pacing_gain the table entry at the
\* new offset, the cycle start now, and cycle_count grows by 1; otherwise
\* the four are unchanged; no advance in any other mode.
C14_CycleAdvance ==
    [][/\ (call'.op = "on_end_acks" /\ bbr.mode = "ProbeBw")
            => IF \E last \in bbr.last_cycle_start :
                      now' - last >= bbr.min_rtt
               THEN /\ bbr'.current_cycle_offset
                         = (bbr.current_cycle_offset + 1) % 8
                    /\ bbr'.pacing_gain
                         = K_PACING_GAIN[bbr'.current_cycle_offset + 1]
                    /\ bbr'.last_cycle_start = Some(now')
                    /\ bbr'.cycle_count = bbr.cycle_count + 1
               ELSE /\ bbr'.current_cycle_offset = bbr.current_cycle_offset
                    /\ bbr'.pacing_gain = bbr.pacing_gain
                    /\ bbr'.last_cycle_start = bbr.last_cycle_start
                    /\ bbr'.cycle_count = bbr.cycle_count
       /\ ~(call'.op = "on_end_acks" /\ bbr.mode = "ProbeBw")
            => bbr'.cycle_count = bbr.cycle_count
      ]_vars

\* C14 amended: the advance happens iff the elapsed time is strictly greater
\* than min_rtt, and pacing_gain after the batch is 1.0 instead when the
\* same batch enters ProbeRtt; the rest as stated.
C14_CycleAdvanceStrict ==
    [][/\ (call'.op = "on_end_acks" /\ bbr.mode = "ProbeBw")
            => IF \E last \in bbr.last_cycle_start :
                      now' - last > bbr.min_rtt
               THEN /\ bbr'.current_cycle_offset
                         = (bbr.current_cycle_offset + 1) % 8
                    /\ bbr'.pacing_gain
                         = IF bbr'.mode = "ProbeRtt"
                           THEN K_UNIT_GAIN
                           ELSE K_PACING_GAIN[bbr'.current_cycle_offset + 1]
                    /\ bbr'.last_cycle_start = Some(now')
                    /\ bbr'.cycle_count = bbr.cycle_count + 1
               ELSE /\ bbr'.current_cycle_offset = bbr.current_cycle_offset
                    /\ bbr'.pacing_gain
                         = IF bbr'.mode = "ProbeRtt"
                           THEN K_UNIT_GAIN
                           ELSE bbr.pacing_gain
                    /\ bbr'.last_cycle_start = bbr.last_cycle_start
                    /\ bbr'.cycle_count = bbr.cycle_count
       /\ ~(call'.op = "on_end_acks" /\ bbr.mode = "ProbeBw")
            => bbr'.cycle_count = bbr.cycle_count
      ]_vars

\* a batch has advanced the gain cycle and left the controller in ProbeBw
C14_Witness ==
    /\ call.op = "on_end_acks"
    /\ call.pre_mode = "ProbeBw"
    /\ bbr.mode = "ProbeBw"
    /\ bbr.cycle_count = 1
    /\ bbr.last_cycle_start = Some(now)

\* C15: current_cycle_offset is in 0..7 in every state; right after an entry
\* into ProbeBw it is one of 0, 2, 3, 4, 5, 6, 7, whatever the draw; and in
\* ProbeBw pacing_gain is the gain-table entry at current_cycle_offset.
C15_CycleOffset ==
    /\ [](bbr.current_cycle_offset \in 0..(Len(K_PACING_GAIN) - 1))
    /\ [][(bbr.mode # "ProbeBw" /\ bbr'.mode = "ProbeBw")
            => bbr'.current_cycle_offset \in {0} \cup 2..7]_vars
    /\ [](bbr.mode = "ProbeBw"
            => bbr.pacing_gain = K_PACING_GAIN[bbr.current_cycle_offset + 1])

\* the exit of ProbeRtt has entered ProbeBw at the last slot of the table
C15_Witness ==
    /\ call.op = "on_end_acks"
    /\ call.pre_mode = "ProbeRtt"
    /\ bbr.mode = "ProbeBw"
    /\ bbr.current_cycle_offset = Len(K_PACING_GAIN) - 1

\* C16: window update of on_end_acks.  With b the estimator's
\* bytes-acked-this-window at the start of the batch, mode, full_pipe, bdp
\* and cwnd_gain as they stand after the batch, target =
\* max(bdp * cwnd_gain, initial_window, 4 * current_mtu) if bdp > 0 else
\* initial_window, and T = clamp(target, inflight_lo, inflight_hi):
\* Startup with full_pipe false gives cwnd' = max(cwnd + b, 4 * current_mtu),
\* never less than cwnd; Drain gives max(T, 4 * current_mtu); Startup with
\* full_pipe true, ProbeBw and ProbeRtt give
\* max(min(T, cwnd + b), 4 * current_mtu); so outside not-yet-full Startup
\* cwnd' <= max(T, 4 * current_mtu).
C16_WindowUpdate ==
    [][call'.op = "on_end_acks"
        => LET b == bytes_acked_this_window(bbr.max_bandwidth)
               floor == 4 * bbr'.current_mtu
               target ==
                   IF bbr'.bdp > 0
                   THEN Max(Max(MulGain(bbr'.bdp, bbr'.cwnd_gain),
                                initial_window(bbr')), floor)
                   ELSE initial_window(bbr')
               T == Max(bbr'.inflight_lo, Min(bbr'.inflight_hi, target))
               filling == bbr'.mode = "Startup" /\ ~bbr'.full_pipe
           IN /\ filling
                   => /\ bbr'.cwnd = Max(bbr.cwnd + b, floor)
                      /\ bbr'.cwnd >= bbr.cwnd
              /\ bbr'.mode = "Drain" => bbr'.cwnd = Max(T, floor)
              /\ (~filling /\ bbr'.mode # "Drain")
                   => bbr'.cwnd = Max(Min(T, bbr.cwnd + b), floor)
              /\ ~filling => bbr'.cwnd <= Max(T, floor)]_vars

\* a batch in Startup before the pipe is full has grown cwnd above the
\* target window
C16_Witness ==
    /\ call.op = "on_end_acks"
    /\ bbr.mode = "Startup"
    /\ ~bbr.full_pipe
    /\ bbr.bdp > 0
    /\ bbr.cwnd > Max(Max(MulGain(bbr.bdp, bbr.cwnd_gain), initial_window(bbr)),
                      4 * bbr.current_mtu)

\* C17 as stated: right after every on_end_acks, bdp is the bandwidth
\* estimate (bytes per second) times min_rtt (in seconds), truncated - hence
\* zero whenever the estimate or min_rtt is zero at that batch.
C17_BdpIsProduct ==
    call.op = "on_end_acks"
        => bbr.bdp = (get_estimate(bbr.max_bandwidth) * bbr.min_rtt) \div 1000

\* C17 amended: right after an on_end_acks with a non-zero estimate and a
\* non-zero min_rtt, bdp is their truncated product; after any other
\* on_end_acks bdp is what it was before the batch (zero only if no earlier
\* batch computed a non-zero bdp); no other operation changes bdp.
C17_BdpIsProductOrKept ==
    [][bbr'.bdp =
         IF /\ call'.op = "on_end_acks"
            /\ get_estimate(bbr'.max_bandwidth) > 0
            /\ bbr'.min_rtt # 0
         THEN (get_estimate(bbr'.max_bandwidth) * bbr'.min_rtt) \div 1000
         ELSE bbr.bdp]_vars

\* a batch with a zero min_rtt has kept the bdp of an earlier batch
C17_Witness ==
    /\ call.op = "on_end_acks"
    /\ bbr.min_rtt = 0
    /\ get_estimate(bbr.max_bandwidth) > 0
    /\ bbr.bdp > 0

\* C18 as stated: after an on_ack, min_rtt is the minimum of the values of
\* rtt.min() handed to the on_ack calls so far - one of those values, and at
\* most the latest of them.
C18_MinRttIsSmallestObserved ==
    call.op = "on_ack"
        => (bbr.min_rtt \in RttValues /\ bbr.min_rtt <= call.rtt_min)

\* the recovery window is active and below cwnd: window() is below cwnd
\* outside ProbeRtt
RecoveryWindowBinds(s) == s.recovery_window > 0 /\ s.recovery_window < s.cwnd

\* C19 as stated: from a state with cwnd >= 4 * current_mtu,
\* on_congestion_event leaves cwnd, mode and pacing_rate unchanged, window()
\* does not decrease, and outside ProbeRtt window() is cwnd after the call;
\* the recovery window comes to hold window() below cwnd only by cwnd
\* growing in an on_end_acks call.
C19_CongestionEventKeepsWindow ==
    [][/\ (call'.op = "on_congestion_event"
             /\ bbr.cwnd >= 4 * bbr.current_mtu)
            => /\ bbr'.cwnd = bbr.cwnd
               /\ bbr'.mode = bbr.mode
               /\ bbr'.pacing_rate = bbr.pacing_rate
               /\ window(bbr') >= window(bbr)
               /\ bbr'.mode # "ProbeRtt" => window(bbr') = bbr'.cwnd
       /\ (RecoveryWindowBinds(bbr') /\ ~RecoveryWindowBinds(bbr))
            => /\ call'.op = "on_end_acks"
               /\ bbr'.cwnd > bbr.cwnd
      ]_vars

\* C19 amended: as stated, except that the recovery window comes to hold
\* window() below cwnd by cwnd growing in an on_end_acks or in an
\* on_mtu_update call.
C19_CongestionEventKeepsWindowUntilCwndGrows ==
    [][/\ (call'.op = "on_congestion_event"
             /\ bbr.cwnd >= 4 * bbr.current_mtu)
            => /\ bbr'.cwnd = bbr.cwnd
               /\ bbr'.mode = bbr.mode
               /\ bbr'.pacing_rate = bbr.pacing_rate
               /\ window(bbr') >= window(bbr)
               /\ bbr'.mode # "ProbeRtt" => window(bbr') = bbr'.cwnd
       /\ (RecoveryWindowBinds(bbr') /\ ~RecoveryWindowBinds(bbr))
            => /\ call'.op \in {"on_end_acks", "on_mtu_update"}
               /\ bbr'.cwnd > bbr.cwnd
      ]_vars

\* a congestion event with a loss, outside ProbeRtt, on a controller whose
\* cwnd has grown: the recovery window is back at cwnd
C19_Witness ==
    /\ call.op = "on_congestion_event"
    /\ call.lost_bytes > 0
    /\ bbr.mode # "ProbeRtt"
    /\ bbr.cwnd > initial_window(bbr)
    /\ bbr.cwnd >= 4 * bbr.current_mtu
    /\ bbr.recovery_window = bbr.cwnd
    /\ window(bbr) = bbr.cwnd

\* C20 as stated: while batches with in_flight below
\* 4 * current_mtu + current_mtu keep arriving, with now advancing without
\* bound, a controller in ProbeRtt eventually ends a batch in another mode,
\* whatever the spacing of the batches.
C20_ProbeRttNotATrap ==
    ([]<>(call.op = "on_end_acks"))
        => ((bbr.mode = "ProbeRtt") ~> (bbr.mode # "ProbeRtt"))

=============================================================================
